---- MODULE Spec2Model ----
(***************************************************************************)
(* Row resizing plugin for table documents (src/src/rowresizing.ts).       *)
(*                                                                         *)
(* The document is  doc(paragraph, table(row(cell(paragraph))...)).  The   *)
(* plugin state is RowResizeState(activeHandle, draggingRow); the handlers *)
(* are handleMouseMove, handleMouseLeave, handleMouseDown and the two      *)
(* window listeners finish / move that handleMouseDown installs.  The      *)
(* table as drawn (TableRowsView, updateRowsOnResize) is the variable      *)
(* screen; the decorations are a function of the state.                    *)
(*                                                                         *)
(* Rows and map slots are 0-based as in the source; TLA+ sequences are     *)
(* 1-based, so doc[r + 1] is row r.                                        *)
(***************************************************************************)
EXTENDS Integers, Sequences, FiniteSets, TLC

VARIABLES
    doc,              \* the table node: sequence of rows, each a sequence of cells
    pre,              \* number of characters in the paragraph in front of the table
    activeHandle,     \* RowResizeState.activeHandle (-1: none)
    draggingRow,      \* RowResizeState.draggingRow (false | null | DraggingRow)
    listeners,        \* number of (finish, move) listener pairs attached to window
    lastRowResizable, \* plugin option, fixed at construction
    dispatched,       \* the transactions the last handler dispatched, in order
    error,            \* the exception the last handler threw ("none" if it returned)
    screen,           \* the table as drawn: per <tr> its style.height and its
                      \* <td> children, and the <table>'s style.height
    lastOp            \* the last event delivered: its name, its pointer Y, and
                      \* the plugin state it found

vars == <<doc, pre, activeHandle, draggingRow, listeners, lastRowResizable,
          dispatched, error, screen, lastOp>>

----------------------------------------------------------------------------
(* Bounds of the model *)

\* characters that may be typed into the paragraph in front of the table
MaxPre == 1

\* committed row heights are explored up to this value
MaxHeight == 80

(* Program constants *)

cellMinHeight == 25

\* attrs.height of a cell that has no stored height (null), as a sentinel
Null == -1

\* nodeSize of a cell holding one empty paragraph: <td><p></p></td>
CellNodeSize == 4

\* pointer Y coordinates delivered with mouse events
PointerYs == {0, 100, 130}

\* pointer Y coordinates at which the button is pressed
DownYs == {100}

\* pointer Y coordinates of the 3 x 3 scenario: a drag from 100 to 140 adds 40
GridYs == {100, 140}

Max(a, b) == IF a >= b THEN a ELSE b

MinOf(S) == CHOOSE x \in S : \A y \in S : x <= y

----------------------------------------------------------------------------
(* Document geometry: positions as the document model counts them *)

RECURSIVE SumSizes(_, _)
\* total nodeSize of the first n rows of d
SumSizes(d, n) ==
    IF n = 0 THEN 0 ELSE SumSizes(d, n - 1) + 2 + Len(d[n]) * CellNodeSize

\* offset of row r (0-based) inside the table, relative to the table's start
RowOffset(d, r) == SumSizes(d, r)

\* offset of the i-th cell (1-based) of row r (0-based), relative to table start
CellOffset(d, r, i) == RowOffset(d, r) + 1 + (i - 1) * CellNodeSize

\* $cell.start(-1): the position just inside the table node; the table follows
\* one paragraph holding p characters
TableStart(p) == p + 3

\* doc.content.size
DocSize(d, p) == (p + 2) + (SumSizes(d, Len(d)) + 2)

\* <<r, i>> for every cell of the table (r 0-based, i 1-based)
CellIndexes(d) ==
    UNION {{<<r, i>> : i \in 1 .. Len(d[r + 1])} : r \in 0 .. Len(d) - 1}

\* absolute positions at which a cell starts
CellPositions(d, p) ==
    {TableStart(p) + CellOffset(d, ri[1], ri[2]) : ri \in CellIndexes(d)}

\* the <<r, i>> of the cell starting at absolute position pos
IndexOfPos(d, p, pos) ==
    CHOOSE ri \in CellIndexes(d) : TableStart(p) + CellOffset(d, ri[1], ri[2]) = pos

\* doc.nodeAt(pos) for a cell position
NodeAt(d, p, pos) ==
    LET ri == IndexOfPos(d, p, pos) IN d[ri[1] + 1][ri[2]]

\* $cell.index(-1): index of the row that holds the cell, in the table
RowIndex(d, p, pos) == IndexOfPos(d, p, pos)[1]

\* doc.resolve(pos) throws a RangeError outside [0, content.size]
ResolveThrows(d, p, pos) == pos < 0 \/ pos > DocSize(d, p)

\* pointsAtCell($pos): the parent is a row and a node follows
pointsAtCell(d, p, pos) == pos \in CellPositions(d, p)

----------------------------------------------------------------------------
(* TableMap *)

RECURSIVE SumColspan(_, _)
SumColspan(row, n) ==
    IF n = 0 THEN 0 ELSE SumColspan(row, n - 1) + row[n].colspan

\* map.width: the number of columns
MapWidth(d) == SumColspan(d[1], Len(d[1]))

RECURSIVE FillCells(_, _, _, _)
\* place the cells in document order: each goes to the next free slot of its
\* row and covers rowspan x colspan slots
FillCells(d, m, r, i) ==
    IF r >= Len(d) THEN m
    ELSE IF i > Len(d[r + 1]) THEN FillCells(d, m, r + 1, 1)
    ELSE LET w == MapWidth(d)
             c == d[r + 1][i]
             s0 == MinOf({s \in (r * w) .. (r * w + w - 1) : m[s] = 0})
             covered == {s0 + h * w + k : h \in 0 .. c.rowspan - 1,
                                          k \in 0 .. c.colspan - 1}
         IN  FillCells(d,
                       [s \in DOMAIN m |->
                           IF s \in covered THEN CellOffset(d, r, i) ELSE m[s]],
                       r, i + 1)

\* TableMap.get(table): width, height and the slot -> cell offset array
TableMapGet(d) ==
    LET w == MapWidth(d)
        h == Len(d)
    IN  [width |-> w, height |-> h,
         map |-> FillCells(d, [s \in 0 .. (w * h - 1) |-> 0], 0, 1)]

\* map.colCount(pos): the column of the first slot the cell occupies
colCount(map, pos) ==
    MinOf({s \in DOMAIN map.map : map.map[s] = pos}) % map.width

\* map.map.indexOf(pos): the first slot the cell occupies
indexOf(map, pos) == MinOf({s \in DOMAIN map.map : map.map[s] = pos})

----------------------------------------------------------------------------
(* Position mapping of a transaction (tr.mapping) *)

RECURSIVE StepMapFrom(_, _, _, _, _)
\* StepMap.map(pos, assoc) over ranges <<start, oldSize, newSize>>, from range k
\* on, with the size difference diff accumulated so far
StepMapFrom(ranges, k, diff, pos, assoc) ==
    IF k > Len(ranges) THEN pos + diff
    ELSE LET start == ranges[k][1]
             oldSize == ranges[k][2]
             newSize == ranges[k][3]
             end == start + oldSize
         IN  IF start > pos THEN pos + diff
             ELSE IF pos <= end
                  THEN LET side == IF oldSize = 0 THEN assoc
                                   ELSE IF pos = start THEN -1
                                   ELSE IF pos = end THEN 1
                                   ELSE assoc
                       IN  start + diff + (IF side < 0 THEN 0 ELSE newSize)
                  ELSE StepMapFrom(ranges, k + 1, diff + newSize - oldSize, pos, assoc)

RECURSIVE MappingMap(_, _, _, _)
\* tr.mapping.map(pos, assoc): through the step maps k .. Len(maps) in order
MappingMap(maps, k, pos, assoc) ==
    IF k > Len(maps) THEN pos
    ELSE MappingMap(maps, k + 1, StepMapFrom(maps[k], 1, 0, pos, assoc), assoc)

----------------------------------------------------------------------------
(* Plugin state *)

\* the values of RowResizeState.draggingRow
NoDrag == [kind |-> "false", startY |-> 0, startHeight |-> 0]
NullDrag == [kind |-> "null", startY |-> 0, startHeight |-> 0]
Session(y, h) == [kind |-> "session", startY |-> y, startHeight |-> h]

\* JavaScript truthiness of draggingRow: false and null are falsy
Truthy(dr) == dr.kind = "session"

\* the plugin metadata a transaction carries
NoMeta == [kind |-> "none", setHandle |-> -1, setDraggingRow |-> NoDrag]
SetHandleMeta(h) == [kind |-> "setHandle", setHandle |-> h, setDraggingRow |-> NoDrag]
SetDraggingMeta(dr) ==
    [kind |-> "setDraggingRow", setHandle |-> -1, setDraggingRow |-> dr]

\* a transaction: its plugin metadata, its steps' maps, and the document after it
Tr(meta, maps, d, p) ==
    [meta |-> meta, docChanged |-> Len(maps) > 0, maps |-> maps, doc |-> d, pre |-> p]

\* apply without the pointsAtCell test on the mapped handle
applyKeepsMappedHandle(st, tr) ==
    IF tr.meta.kind = "setHandle"
    THEN [activeHandle |-> tr.meta.setHandle, draggingRow |-> NoDrag]
    ELSE IF tr.meta.kind = "setDraggingRow"
    THEN [activeHandle |-> st.activeHandle, draggingRow |-> tr.meta.setDraggingRow]
    ELSE IF st.activeHandle > -1 /\ tr.docChanged
    THEN [activeHandle |-> MappingMap(tr.maps, 1, st.activeHandle, -1),
          draggingRow |-> st.draggingRow]
    ELSE st

\* apply leaving the handle at its old position when the document changes
applyKeepsOldPosition(st, tr) ==
    IF tr.meta.kind = "setHandle"
    THEN [activeHandle |-> tr.meta.setHandle, draggingRow |-> NoDrag]
    ELSE IF tr.meta.kind = "setDraggingRow"
    THEN [activeHandle |-> st.activeHandle, draggingRow |-> tr.meta.setDraggingRow]
    ELSE IF st.activeHandle > -1 /\ tr.docChanged
    THEN [activeHandle |-> IF pointsAtCell(tr.doc, tr.pre, st.activeHandle)
                           THEN st.activeHandle ELSE -1,
          draggingRow |-> st.draggingRow]
    ELSE st

\* RowResizeState.apply(tr) on state st = [activeHandle, draggingRow]
apply(st, tr) ==
    IF tr.meta.kind = "setHandle"
    THEN [activeHandle |-> tr.meta.setHandle, draggingRow |-> NoDrag]
    ELSE IF tr.meta.kind = "setDraggingRow"
    THEN [activeHandle |-> st.activeHandle, draggingRow |-> tr.meta.setDraggingRow]
    ELSE IF st.activeHandle > -1 /\ tr.docChanged
    THEN LET handle == MappingMap(tr.maps, 1, st.activeHandle, -1)
         IN  [activeHandle |-> IF pointsAtCell(tr.doc, tr.pre, handle)
                               THEN handle ELSE -1,
              draggingRow |-> st.draggingRow]
    ELSE st

\* the plugin state as a record
PluginState == [activeHandle |-> activeHandle, draggingRow |-> draggingRow]

\* the record of an event delivered in the current state
Event(op, y) == [op |-> op, y |-> y, handle |-> activeHandle, drag |-> draggingRow]

----------------------------------------------------------------------------
(* Helpers of the handlers *)

\* Number(h) as the + operator converts a stored height: null becomes 0
ToNumber(h) == IF h = Null THEN 0 ELSE h

\* draggedHeight without the Math.max against cellMinHeight
draggedHeightUnclamped(dr, clientY, minHeight) ==
    ToNumber(dr.startHeight) + (clientY - dr.startY)

\* draggedHeight(draggingRow, event, cellMinHeight), event.clientY = clientY
draggedHeight(dr, clientY, minHeight) ==
    LET offset == clientY - dr.startY
    IN  Max(minHeight, ToNumber(dr.startHeight) + offset)

\* edgeCell(view, event, side, handleHeight); hit is the cell cellAround finds
\* at the probed coordinates, -1 when posAtCoords or cellAround finds none
edgeCell(d, p, side, hit) ==
    IF hit = -1 THEN -1
    ELSE IF side = "right" THEN hit
    ELSE LET map == TableMapGet(d)
             start == TableStart(p)
             index == indexOf(map, hit - start)
         IN  IF index % map.width = 0 THEN -1 ELSE start + map.map[index - 1]

\* the test handleMouseMove makes when lastRowResizable is off: the cell's
\* last column is the last column of the map
InLastColumn(d, p, cell) ==
    LET map == TableMapGet(d)
        col == colCount(map, cell - TableStart(p)) + NodeAt(d, p, cell).colspan - 1
    IN  col = map.width - 1

\* the step map of tr.setNodeMarkup(pos, null, attrs) on a cell: the opening
\* and the closing token are replaced, the content is kept
SetNodeMarkupMap(pos) == <<(<<pos, 1, 1>>), (<<pos + CellNodeSize - 1, 1, 1>>)>>

\* the table d with the cell at absolute position pos given the attributes
\* attrs; the node (here: its identity) stays
SetNodeMarkup(d, p, pos, attrs) ==
    LET ri == IndexOfPos(d, p, pos)
        node == d[ri[1] + 1][ri[2]]
    IN  [d EXCEPT ![ri[1] + 1][ri[2]] = [attrs EXCEPT !.id = node.id]]

RECURSIVE RowHeightLoopSkipsLastColumn(_, _, _, _, _, _, _)
\* the loop of updateRowHeight stopping one column early
RowHeightLoopSkipsLastColumn(table, p, map, row, height, i, acc) ==
    IF i >= map.width - 1 THEN acc
    ELSE LET pos == map.map[row * map.width + i]
             attrs == NodeAt(table, p, TableStart(p) + pos)
         IN  RowHeightLoopSkipsLastColumn(table, p, map, row, height, i + 1,
                 [doc |-> SetNodeMarkup(acc.doc, p, TableStart(p) + pos,
                                        [attrs EXCEPT !.height = height]),
                  maps |-> Append(acc.maps, SetNodeMarkupMap(TableStart(p) + pos))])

RECURSIVE RowHeightLoop(_, _, _, _, _, _, _)
\* the loop of updateRowHeight from column i on: table is the document the
\* handler started from, acc = [doc, maps] the transaction built so far
RowHeightLoop(table, p, map, row, height, i, acc) ==
    IF i >= map.width THEN acc
    ELSE LET pos == map.map[row * map.width + i]
             attrs == NodeAt(table, p, TableStart(p) + pos)
         IN  RowHeightLoop(table, p, map, row, height, i + 1,
                 [doc |-> SetNodeMarkup(acc.doc, p, TableStart(p) + pos,
                                        [attrs EXCEPT !.height = height]),
                  maps |-> Append(acc.maps, SetNodeMarkupMap(TableStart(p) + pos))])

\* updateRowHeight taking height as an amount to add to the handle cell's height
updateRowHeightAsDelta(d, p, cell, height) ==
    LET map == TableMapGet(d)
        row == RowIndex(d, p, cell)
        acc == RowHeightLoop(d, p, map, row, ToNumber(NodeAt(d, p, cell).height) + height,
                             0, [doc |-> d, maps |-> <<>>])
    IN  Tr(NoMeta, acc.maps, acc.doc, p)

\* updateRowHeight(view, cell, height): the transaction it builds
updateRowHeight(d, p, cell, height) ==
    LET map == TableMapGet(d)
        row == RowIndex(d, p, cell)
        acc == RowHeightLoop(d, p, map, row, height, 0, [doc |-> d, maps |-> <<>>])
    IN  Tr(NoMeta, acc.maps, acc.doc, p)

\* what a handler leaves in `dispatched` for a transaction it dispatched
Sent(tr) == [meta |-> tr.meta.kind, steps |-> Len(tr.maps)]

----------------------------------------------------------------------------
(* The table on screen *)

\* an optional argument that was not passed
Undefined == -1

\* the rows the view draws for table d: one <tr> per row, without a style
\* height, holding one <td> per cell of the row (named by the cell's id)
Render(d) ==
    [r \in 1 .. Len(d) |->
        [height |-> Null, cells |-> [i \in 1 .. Len(d[r]) |-> d[r][i].id]]]

RECURSIVE OverrideLoop(_, _, _, _, _, _)
\* the for loop of updateRowsOnResize over the cells of the first row, from
\* cell i on; rowIndex is never advanced
OverrideLoop(rows, rowNode, overrideRow, overrideValue, i, rowIndex) ==
    IF i >= Len(rowNode) THEN rows
    ELSE IF overrideRow # Undefined /\ overrideRow # rowIndex
         THEN OverrideLoop(rows, rowNode, overrideRow, overrideValue, i + 1, rowIndex)
         ELSE OverrideLoop(
                  IF overrideValue # Undefined
                  THEN [rows EXCEPT ![rowIndex + 1].height = overrideValue]
                  ELSE rows,
                  rowNode, overrideRow, overrideValue, i + 1, rowIndex)

\* updateRowsOnResize(node, colgroup, table, cellMinHeight, overrideRow,
\* overrideValue) on the drawn table scr: nextDOM starts at the first <td> of
\* table.rows[overrideRow ?? 0]; the while loop removes it and its siblings
updateRowsOnResize(node, scr, overrideRow, overrideValue) ==
    LET first == IF overrideRow = Undefined THEN 0 ELSE overrideRow
        painted == OverrideLoop(scr.rows, node[1], overrideRow, overrideValue, 0, 0)
        cleared == IF first < Len(painted)
                   THEN [painted EXCEPT ![first + 1].cells = <<>>]
                   ELSE painted
    IN  IF Len(node) = 0 THEN scr
        ELSE [rows |-> cleared, height |-> 0]

\* displayRowHeight(view, cell, height, cellMinHeight), cell resolvable
displayRowHeight(d, p, scr, cell, height) ==
    updateRowsOnResize(d, scr, RowIndex(d, p, cell), height)

\* new TableRowsView(node, cellMinHeight) and the first drawing of the rows:
\* the constructor runs updateRowsOnResize on a <table> that has no row yet,
\* then the view draws the rows into the <tbody>
TableRowsView(d) ==
    [rows |-> Render(d),
     height |-> updateRowsOnResize(d, [rows |-> <<>>, height |-> Null],
                                   Undefined, Undefined).height]

\* TableRowsView.update(node) on the table as drawn: node is the table node,
\* so the test of node.type passes; updateRowsOnResize runs without override
TableRowsViewUpdate(node, scr) ==
    updateRowsOnResize(node, scr, Undefined, Undefined)

\* the drawn table scr after the transactions of a handler: when they replaced
\* the table node (tableReplaced) the view calls update(node) of the node view
\* with the new table node d; nothing in this file draws a row or a cell again
ViewUpdate(tableReplaced, d, scr) ==
    IF tableReplaced THEN TableRowsViewUpdate(d, scr) ELSE scr

----------------------------------------------------------------------------
(* Decorations *)

RECURSIVE DecorationLoop(_, _, _, _, _, _)
\* the loop of handleDecorations from row `row` on: the widget positions pushed
DecorationLoop(d, p, map, col, row, decorations) ==
    IF row >= map.height THEN decorations
    ELSE LET index == (row + 1) * map.width - 1
             \* map.map[index + 1] is undefined past the end of the array
             differsFromNext == \/ index + 1 \notin DOMAIN map.map
                                \/ map.map[index] # map.map[index + 1]
             cellPos == map.map[index]
             pos == TableStart(p) + cellPos + CellNodeSize - 1
         IN  IF /\ (col = map.width \/ differsFromNext)
                /\ (row = 0 \/ map.map[index] # map.map[index - map.width])
             THEN DecorationLoop(d, p, map, col, row + 1, Append(decorations, pos))
             ELSE DecorationLoop(d, p, map, col, row + 1, decorations)

\* handleDecorations(state, cell): the positions of the widgets, in order
handleDecorations(d, p, cell) ==
    LET map == TableMapGet(d)
        col == colCount(map, cell - TableStart(p)) + NodeAt(d, p, cell).colspan
    IN  DecorationLoop(d, p, map, col, 0, <<>>)

\* props.decorations(state): nothing unless a handle is active
Decorations(d, p, st) ==
    IF st.activeHandle > -1 THEN handleDecorations(d, p, st.activeHandle) ELSE <<>>

----------------------------------------------------------------------------
(* Initial documents *)

Cell(id, rowspan, colspan, height) ==
    [id |-> id, rowspan |-> rowspan, colspan |-> colspan, height |-> height]

\* 3 x 3, every cell rowspan = colspan = 1
Grid3x3 ==
    <<(<<Cell(1, 1, 1, 40), Cell(2, 1, 1, 40), Cell(3, 1, 1, 40)>>),
      (<<Cell(4, 1, 1, 40), Cell(5, 1, 1, 40), Cell(6, 1, 1, 40)>>),
      (<<Cell(7, 1, 1, 40), Cell(8, 1, 1, 40), Cell(9, 1, 1, 40)>>)>>

\* 2 x 3, the first cell spans rows 0-1 of column 0
GridRowSpan ==
    <<(<<Cell(1, 2, 1, 40), Cell(2, 1, 1, 40), Cell(3, 1, 1, 40)>>),
      (<<Cell(4, 1, 1, Null), Cell(5, 1, 1, Null)>>)>>

\* 2 x 3, the first cell spans columns 0-1 of row 0
GridColSpan ==
    <<(<<Cell(1, 1, 2, 40), Cell(2, 1, 1, 40)>>),
      (<<Cell(3, 1, 1, Null), Cell(4, 1, 1, Null), Cell(5, 1, 1, Null)>>)>>

Tables == {GridRowSpan, GridColSpan}

\* 2 x 2, the second cell spans rows 0-1 of the last column
GridLastColumnSpan ==
    <<(<<Cell(1, 1, 1, 40), Cell(2, 2, 1, 40)>>),
      (<<Cell(3, 1, 1, 40)>>)>>

----------------------------------------------------------------------------
(* The state machine *)

\* the state after construction on document d with option lastRowResizable = lrr
InitOn(d, lrr) ==
    /\ doc = d
    /\ pre = 0
    /\ activeHandle = -1
    /\ draggingRow = NoDrag
    /\ listeners = 0
    /\ lastRowResizable = lrr
    /\ dispatched = <<>>
    /\ error = "none"
    /\ screen = TableRowsView(d)
    /\ lastOp = [op |-> "init", y |-> 0, handle |-> -1, drag |-> NoDrag]

\* the plugin with its default options
Init == \E d \in Tables : InitOn(d, TRUE)

\* handleMouseMove: side is the edge of the hovered cell the pointer is near
\* ("none": no cell under the pointer, or no edge near), hit the cell found at
\* the probed coordinates
HandleMouseMove(side, hit) ==
    LET cell == IF side = "none" THEN -1 ELSE edgeCell(doc, pre, side, hit)
        update == /\ ~Truthy(draggingRow)
                  /\ cell # activeHandle
                  /\ ~(~lastRowResizable /\ cell # -1 /\ InLastColumn(doc, pre, cell))
        tr == Tr(SetHandleMeta(cell), <<>>, doc, pre)
        st == IF update THEN apply(PluginState, tr) ELSE PluginState
    IN  /\ activeHandle' = st.activeHandle
        /\ draggingRow' = st.draggingRow
        /\ dispatched' = IF update THEN <<Sent(tr)>> ELSE <<>>
        /\ error' = "none"
        /\ lastOp' = Event("mousemove", 0)
        /\ UNCHANGED <<doc, pre, listeners, lastRowResizable, screen>>

\* handleMouseLeave without the test for a drag in progress
HandleMouseLeaveIgnoresDrag ==
    LET update == activeHandle > -1
        tr == Tr(SetHandleMeta(-1), <<>>, doc, pre)
        st == IF update THEN apply(PluginState, tr) ELSE PluginState
    IN  /\ activeHandle' = st.activeHandle
        /\ draggingRow' = st.draggingRow
        /\ dispatched' = IF update THEN <<Sent(tr)>> ELSE <<>>
        /\ error' = "none"
        /\ lastOp' = Event("mouseleave", 0)
        /\ UNCHANGED <<doc, pre, listeners, lastRowResizable, screen>>

\* handleMouseLeave
HandleMouseLeave ==
    LET update == activeHandle > -1 /\ ~Truthy(draggingRow)
        tr == Tr(SetHandleMeta(-1), <<>>, doc, pre)
        st == IF update THEN apply(PluginState, tr) ELSE PluginState
    IN  /\ activeHandle' = st.activeHandle
        /\ draggingRow' = st.draggingRow
        /\ dispatched' = IF update THEN <<Sent(tr)>> ELSE <<>>
        /\ error' = "none"
        /\ lastOp' = Event("mouseleave", 0)
        /\ UNCHANGED <<doc, pre, listeners, lastRowResizable, screen>>

\* the early return of handleMouseDown without the test for a drag in progress
MouseDownRejectedWithoutDragTest(st) == st.activeHandle = -1

\* the early return of handleMouseDown
MouseDownRejected(st) == st.activeHandle = -1 \/ Truthy(st.draggingRow)

\* the drag session handleMouseDown records
NewSession(d, p, handle, clientY) ==
    Session(clientY, NodeAt(d, p, handle).height)

\* handleMouseDown with event.clientY = y
HandleMouseDown(y) ==
    LET start == ~MouseDownRejected(PluginState)
        tr == Tr(SetDraggingMeta(NewSession(doc, pre, activeHandle, y)), <<>>, doc, pre)
        st == IF start THEN apply(PluginState, tr) ELSE PluginState
    IN  /\ activeHandle' = st.activeHandle
        /\ draggingRow' = st.draggingRow
        /\ listeners' = IF start THEN listeners + 1 ELSE listeners
        /\ dispatched' = IF start THEN <<Sent(tr)>> ELSE <<>>
        /\ error' = "none"
        /\ lastOp' = Event("mousedown", y)
        /\ UNCHANGED <<doc, pre, lastRowResizable, screen>>

\* finish(event) with event.clientY = y, after it removed the listeners: what
\* it leaves as document, plugin state, dispatched transactions and exception
finish(d, p, st, y) ==
    IF ~Truthy(st.draggingRow)
    THEN [doc |-> d, st |-> st, sent |-> <<>>, error |-> "none"]
    ELSE IF ResolveThrows(d, p, st.activeHandle)
    THEN [doc |-> d, st |-> st, sent |-> <<>>, error |-> "RangeError"]
    ELSE LET tr1 == updateRowHeight(d, p, st.activeHandle,
                                    draggedHeight(st.draggingRow, y, cellMinHeight))
             commit == tr1.docChanged
             st1 == IF commit THEN apply(st, tr1) ELSE st
             d1 == IF commit THEN tr1.doc ELSE d
             tr2 == Tr(SetDraggingMeta(NullDrag), <<>>, d1, p)
         IN  [doc |-> d1, st |-> apply(st1, tr2),
              sent |-> (IF commit THEN <<Sent(tr1)>> ELSE <<>>) \o <<Sent(tr2)>>,
              error |-> "none"]

\* the heights the model lets a drag commit
WithinBounds(y) ==
    Truthy(draggingRow) => draggedHeight(draggingRow, y, cellMinHeight) <= MaxHeight

\* a mouseup on window: every attached finish runs and removes its pair
WindowMouseUp(y) ==
    /\ listeners > 0
    /\ WithinBounds(y)
    /\ \E out \in {finish(doc, pre, PluginState, y)} :
           /\ doc' = out.doc
           /\ activeHandle' = out.st.activeHandle
           /\ draggingRow' = out.st.draggingRow
           /\ dispatched' = out.sent
           /\ error' = out.error
           /\ screen' = ViewUpdate(\E k \in 1 .. Len(out.sent) : out.sent[k].steps > 0,
                                  out.doc, screen)
    /\ listeners' = 0
    /\ lastOp' = Event("mouseup", y)
    /\ UNCHANGED <<pre, lastRowResizable>>

\* a mousemove on window with no button held (event.which = 0): move calls finish
WindowMouseMoveNoButton(y) ==
    /\ listeners > 0
    /\ WithinBounds(y)
    /\ \E out \in {finish(doc, pre, PluginState, y)} :
           /\ doc' = out.doc
           /\ activeHandle' = out.st.activeHandle
           /\ draggingRow' = out.st.draggingRow
           /\ dispatched' = out.sent
           /\ error' = out.error
           /\ screen' = ViewUpdate(\E k \in 1 .. Len(out.sent) : out.sent[k].steps > 0,
                                  out.doc, screen)
    /\ listeners' = 0
    /\ lastOp' = Event("move0", y)
    /\ UNCHANGED <<pre, lastRowResizable>>

\* move running finish although a button is held
WindowMouseMoveCommits(y) ==
    /\ listeners > 0
    /\ WithinBounds(y)
    /\ \E out \in {finish(doc, pre, PluginState, y)} :
           /\ doc' = out.doc
           /\ activeHandle' = out.st.activeHandle
           /\ draggingRow' = out.st.draggingRow
           /\ dispatched' = out.sent
           /\ error' = out.error
           /\ screen' = ViewUpdate(\E k \in 1 .. Len(out.sent) : out.sent[k].steps > 0,
                                  out.doc, screen)
    /\ lastOp' = Event("move", y)
    /\ UNCHANGED <<pre, listeners, lastRowResizable>>

\* a mousemove on window with a button held: move previews the dragged height
WindowMouseMove(y) ==
    /\ listeners > 0
    /\ error' = IF Truthy(draggingRow) /\ ResolveThrows(doc, pre, activeHandle)
                THEN "RangeError" ELSE "none"
    /\ screen' = IF Truthy(draggingRow) /\ ~ResolveThrows(doc, pre, activeHandle)
                 THEN displayRowHeight(doc, pre, screen, activeHandle,
                                       draggedHeight(draggingRow, y, cellMinHeight))
                 ELSE screen
    /\ dispatched' = <<>>
    /\ lastOp' = Event("move", y)
    /\ UNCHANGED <<doc, pre, activeHandle, draggingRow, listeners, lastRowResizable>>

\* the table d without row r
WithoutRow(d, r) == [k \in 1 .. Len(d) - 1 |-> IF k <= r THEN d[k] ELSE d[k + 1]]

\* the drawn table without the <tr> of row r: the view takes the <tr> of a
\* deleted row out of the <tbody>; no row is taken out when r is Undefined
WithoutScreenRow(scr, r) ==
    IF r = Undefined THEN scr ELSE [scr EXCEPT !.rows = WithoutRow(scr.rows, r)]

\* a transaction of the host that changes the document: the state field's
\* apply runs on it; when the table node was replaced the view first calls
\* update(node) on the table as drawn, then takes the <tr> of the deleted
\* row (removed) out of the <tbody>
HostEdit(tr, op, removed) ==
    \E st \in {apply(PluginState, tr)} :
        /\ doc' = tr.doc
        /\ pre' = tr.pre
        /\ activeHandle' = st.activeHandle
        /\ draggingRow' = st.draggingRow
        /\ dispatched' = <<Sent(tr)>>
        /\ error' = "none"
        /\ screen' = WithoutScreenRow(ViewUpdate(tr.doc # doc, tr.doc, screen), removed)
        /\ lastOp' = Event(op, 0)
        /\ UNCHANGED <<listeners, lastRowResizable>>

\* the host inserts a character at the start of the paragraph before the table
TypeBefore ==
    /\ pre < MaxPre
    /\ HostEdit(Tr(NoMeta, <<(<<(<<1, 0, 1>>)>>)>>, doc, pre + 1), "type", Undefined)

\* row r can be cut out leaving a well-formed table: no cell of another row
\* reaches into it, none of its cells reaches out of it, and a row remains
RowDeletable(d, r) ==
    /\ Len(d) > 1
    /\ \A i \in 1 .. Len(d[r + 1]) : d[r + 1][i].rowspan = 1
    /\ SumColspan(d[r + 1], Len(d[r + 1])) = MapWidth(d)

\* the host deletes row r of the table
DeleteRow(r) ==
    /\ RowDeletable(doc, r)
    /\ LET from == TableStart(pre) + RowOffset(doc, r)
           size == 2 + Len(doc[r + 1]) * CellNodeSize
       IN  HostEdit(Tr(NoMeta, <<(<<(<<from, size, 0>>)>>)>>, WithoutRow(doc, r), pre),
                    "deleterow", r)

\* the events of the plugin and of the host
Next ==
    \/ HandleMouseMove("none", -1)
    \/ \E side \in {"left", "right"}, hit \in CellPositions(doc, pre) \cup {-1} :
          HandleMouseMove(side, hit)
    \/ HandleMouseLeave
    \/ \E y \in DownYs : HandleMouseDown(y)
    \/ \E y \in PointerYs : WindowMouseUp(y)
    \/ \E y \in PointerYs : WindowMouseMoveNoButton(y)
    \/ \E y \in PointerYs : WindowMouseMove(y)
    \/ TypeBefore
    \/ \E r \in 0 .. Len(doc) - 1 : DeleteRow(r)

Spec == Init /\ [][Next]_vars

\* the events that read or write the plugin state, the document or the
\* listeners: all of Next but the move with a button held, which writes the
\* drawn table alone
NextSession ==
    \/ HandleMouseMove("none", -1)
    \/ \E side \in {"left", "right"}, hit \in CellPositions(doc, pre) \cup {-1} :
          HandleMouseMove(side, hit)
    \/ HandleMouseLeave
    \/ \E y \in DownYs : HandleMouseDown(y)
    \/ \E y \in PointerYs : WindowMouseUp(y)
    \/ \E y \in PointerYs : WindowMouseMoveNoButton(y)
    \/ TypeBefore
    \/ \E r \in 0 .. Len(doc) - 1 : DeleteRow(r)

SpecSession == Init /\ [][NextSession]_vars

\* resize gestures alone (hover a boundary, press, release), on the 3 x 3
\* grid as well
InitGrid == \E d \in Tables \cup {Grid3x3} : InitOn(d, TRUE)

NextGrid ==
    \/ \E side \in {"left", "right"}, hit \in CellPositions(doc, pre) :
          HandleMouseMove(side, hit)
    \/ \E y \in DownYs : HandleMouseDown(y)
    \/ \E y \in GridYs : WindowMouseUp(y)

SpecGrid == InitGrid /\ [][NextGrid]_vars

\* hovering and dragging alone, with the option lastRowResizable on and off
InitOptions == \E d \in Tables, lrr \in BOOLEAN : InitOn(d, lrr)

NextOptions ==
    \/ HandleMouseMove("none", -1)
    \/ \E side \in {"left", "right"}, hit \in CellPositions(doc, pre) \cup {-1} :
          HandleMouseMove(side, hit)
    \/ HandleMouseLeave
    \/ \E y \in DownYs : HandleMouseDown(y)
    \/ \E y \in DownYs : WindowMouseUp(y)

SpecOptions == InitOptions /\ [][NextOptions]_vars

\* drags with previews: hover a boundary, press, move with the button held,
\* release where the button was pressed
NextPreview ==
    \/ \E side \in {"left", "right"}, hit \in CellPositions(doc, pre) :
          HandleMouseMove(side, hit)
    \/ \E y \in DownYs : HandleMouseDown(y)
    \/ \E y \in PointerYs : WindowMouseMove(y)
    \/ \E y \in DownYs : WindowMouseUp(y)

SpecPreview == InitGrid /\ [][NextPreview]_vars

\* drags interleaved with edits of the host, released where they were pressed
NextEdit ==
    \/ \E side \in {"left", "right"}, hit \in CellPositions(doc, pre) :
          HandleMouseMove(side, hit)
    \/ \E y \in DownYs : HandleMouseDown(y)
    \/ \E y \in DownYs : WindowMouseMove(y)
    \/ \E y \in DownYs : WindowMouseUp(y)
    \/ TypeBefore
    \/ \E r \in 0 .. Len(doc) - 1 : DeleteRow(r)

SpecEdit == Init /\ [][NextEdit]_vars

\* hovering over tables of every shape, the decorations following the handle
InitDecorations ==
    \E d \in Tables \cup {Grid3x3, GridLastColumnSpan} : InitOn(d, TRUE)

SpecDecorations == InitDecorations /\ [][NextOptions]_vars

----------------------------------------------------------------------------
(* Vocabulary of the properties *)

\* events that are document edits of the host
HostOps == {"type", "deleterow"}

\* events that run finish
FinishOps == {"mouseup", "move0"}

\* the identities of the cells of table d
IdsOf(d) == {d[ri[1] + 1][ri[2]].id : ri \in CellIndexes(d)}

\* the position of the cell with identity id
PosOfId(d, p, id) == CHOOSE pos \in CellPositions(d, p) : NodeAt(d, p, pos).id = id

\* the cells (as offsets) that occupy some slot (r, c) of the map of d
CellsOfRow(d, r) ==
    LET map == TableMapGet(d)
    IN  {map.map[r * map.width + c] : c \in 0 .. map.width - 1}

\* every active handle is the position of a cell
HandleValid == activeHandle = -1 \/ activeHandle \in CellPositions(doc, pre)

----------------------------------------------------------------------------
(* C1: the plugin state is always Idle (activeHandle = -1, no drag session),
   Hover (activeHandle >= 0, no drag session) or Dragging (activeHandle >= 0,
   drag session); a drag session never coexists with activeHandle = -1. *)
C1_IdleHoverOrDragging ==
    \/ activeHandle = -1 /\ ~Truthy(draggingRow)
    \/ activeHandle >= 0 /\ ~Truthy(draggingRow)
    \/ activeHandle >= 0 /\ Truthy(draggingRow)

(* C2: a document-changing transaction without plugin action, applied while
   activeHandle >= 0, leaves the handle on the same cell at its mapped
   position when that cell is still in the document, and sets it to -1
   otherwise; deleting the row of the handle's cell leaves activeHandle = -1. *)
C2_EditRemapsOrDropsHandle ==
    [][(activeHandle > -1 /\ (doc' # doc \/ pre' # pre)) =>
          LET id == NodeAt(doc, pre, activeHandle).id
          IN  activeHandle' = IF id \in IdsOf(doc')
                              THEN PosOfId(doc', pre', id) ELSE -1]_vars

\* a row deletion found a handle active and left none
C2_Witness ==
    lastOp.op = "deleterow" /\ lastOp.handle > -1 /\ activeHandle = -1

(* C3: when a document edit invalidates the active handle during a drag, the
   state becomes Idle with the drag session discarded, and the later
   pointer-up (or button-less pointer move) commits nothing and raises no
   error. *)
C3_InvalidatedDragIsAbandoned ==
    /\ (lastOp.op \in HostOps /\ Truthy(lastOp.drag) /\ activeHandle = -1)
          => ~Truthy(draggingRow)
    /\ (lastOp.op \in FinishOps /\ lastOp.handle = -1)
          => (error = "none" /\ dispatched = <<>>)

(* C4: the window listeners are attached exactly while the state is
   Dragging: attached when a drag starts, removed on pointer-up and when a
   document edit invalidates the handle mid-drag; never more than one pair. *)
C4_ListenersExactlyWhileDragging ==
    /\ listeners <= 1
    /\ listeners = 1 <=> (activeHandle >= 0 /\ Truthy(draggingRow))

(* C5: a pointer-up (or button-less global move) delivered while a drag
   session exists commits the dragged height to the row of the active handle
   and leaves the state Hover on that handle, no drag session, listeners
   detached, whatever edits were applied since the drag started. *)
C5_PointerUpCommitsAndHovers ==
    (lastOp.op \in FinishOps /\ Truthy(lastOp.drag)) =>
        /\ error = "none"
        /\ activeHandle >= 0
        /\ activeHandle = lastOp.handle
        /\ ~Truthy(draggingRow)
        /\ listeners = 0
        /\ NodeAt(doc, pre, activeHandle).height =
               draggedHeight(lastOp.drag, lastOp.y, cellMinHeight)

(* C6: a mouse-leave while a drag session exists leaves the plugin state
   unchanged, and a drag session ends on a pointer-up (or button-less global
   move) only; a mouse-leave while a handle is active and no drag is in
   progress sets activeHandle to -1. *)
C6_MouseLeaveSparesDrag ==
    /\ [](lastOp.op = "mouseleave" =>
            /\ Truthy(lastOp.drag) =>
                  /\ activeHandle = lastOp.handle
                  /\ draggingRow = lastOp.drag
                  /\ dispatched = <<>>
            /\ (lastOp.handle > -1 /\ ~Truthy(lastOp.drag)) => activeHandle = -1)
    /\ [][(Truthy(draggingRow) /\ ~Truthy(draggingRow')) =>
             lastOp'.op \in FinishOps]_vars

\* the pointer left the editor in the middle of a drag
C6_Witness ==
    lastOp.op = "mouseleave" /\ Truthy(lastOp.drag) /\ lastOp.handle > -1

(* C7: a pointer-down received when activeHandle = -1, or when a drag session
   exists, dispatches no transaction, leaves the plugin state unchanged and
   attaches no listeners. *)
C7_RejectedPointerDownIsNoOp ==
    [][(lastOp'.op = "mousedown" /\ (activeHandle = -1 \/ Truthy(draggingRow))) =>
          /\ dispatched' = <<>>
          /\ error' = "none"
          /\ UNCHANGED <<activeHandle, draggingRow, listeners, doc, pre>>]_vars

\* the button was pressed during a drag and nothing was dispatched
C7_Witness ==
    /\ lastOp.op = "mousedown"
    /\ Truthy(lastOp.drag)
    /\ lastOp.handle > -1
    /\ dispatched = <<>>
    /\ listeners = 1

(* C8: a pointer-down in Hover starts a drag session with startY = the
   pointer's Y and startHeight = the stored height of the handle's cell, or
   cellMinHeight when that cell has no stored height. *)
C8_SessionStartsFromStoredOrMinHeight ==
    (lastOp.op = "mousedown" /\ lastOp.handle > -1 /\ ~Truthy(lastOp.drag)) =>
        /\ Truthy(draggingRow)
        /\ draggingRow.startY = lastOp.y
        /\ draggingRow.startHeight =
               IF NodeAt(doc, pre, activeHandle).height = Null
               THEN cellMinHeight
               ELSE NodeAt(doc, pre, activeHandle).height

(* C9: for a drag session (startY, startHeight) and a pointer Y the dragged
   height is the larger of cellMinHeight and startHeight + (Y - startY): it is
   one of the two and below neither; that is the height a pointer-up commits.
   startHeight 40, startY 100, cellMinHeight 25: 70 at Y = 130, 25 at Y = 0.
   (A startHeight of null enters the sum as 0, as + converts it.) *)
C9_DraggedHeightIsClampedSum ==
    /\ Truthy(draggingRow) =>
          \A y \in PointerYs :
              LET h == draggedHeight(draggingRow, y, cellMinHeight)
                  sum == ToNumber(draggingRow.startHeight) + (y - draggingRow.startY)
              IN  h >= cellMinHeight /\ h >= sum /\ h \in {cellMinHeight, sum}
    /\ (lastOp.op \in FinishOps /\ Truthy(lastOp.drag) /\ lastOp.handle > -1) =>
          LET sum == ToNumber(lastOp.drag.startHeight) + (lastOp.y - lastOp.drag.startY)
          IN  NodeAt(doc, pre, activeHandle).height =
                 IF sum >= cellMinHeight THEN sum ELSE cellMinHeight
    /\ draggedHeight(Session(100, 40), 130, 25) = 70
    /\ draggedHeight(Session(100, 40), 0, 25) = 25

\* a drag from Y = 100 of a row 40 high was released at Y = 130: 70 committed
C9_Witness ==
    /\ lastOp.op = "mouseup"
    /\ lastOp.drag = Session(100, 40)
    /\ lastOp.y = 130
    /\ activeHandle > -1
    /\ NodeAt(doc, pre, activeHandle).height = 70

(* C10: committing height h for the row r of the handle's cell sets height = h
   on exactly the cells that occupy some slot (r, c) of the map (a cell that
   starts above r and spans it included), keeps their other attributes, and
   leaves every other cell as it was.  3 x 3 grid, row 0, h = 80: exactly the
   three cells of row 0 get height 80. *)
C10_CommitSetsHeightOfRowCells ==
    [][(lastOp'.op \in FinishOps /\ Truthy(draggingRow) /\ activeHandle > -1) =>
          LET r == RowIndex(doc, pre, activeHandle)
              h == draggedHeight(draggingRow, lastOp'.y, cellMinHeight)
              inRow == CellsOfRow(doc, r)
          IN  /\ Len(doc') = Len(doc)
              /\ \A k \in 1 .. Len(doc) : Len(doc'[k]) = Len(doc[k])
              /\ \A ri \in CellIndexes(doc) :
                    LET old == doc[ri[1] + 1][ri[2]]
                        new == doc'[ri[1] + 1][ri[2]]
                    IN  IF CellOffset(doc, ri[1], ri[2]) \in inRow
                        THEN new = [old EXCEPT !.height = h]
                        ELSE new = old]_vars

\* the 3 x 3 scenario: row 0 was dragged to 80, rows 1 and 2 are as before
C10_Witness ==
    /\ lastOp.op = "mouseup"
    /\ Truthy(lastOp.drag)
    /\ Len(doc) = 3
    /\ \A i \in 1 .. 3 : doc[1][i] = [Grid3x3[1][i] EXCEPT !.height = 80]
    /\ doc[2] = Grid3x3[2]
    /\ doc[3] = Grid3x3[3]

----------------------------------------------------------------------------
(* Commits: what finish dispatches and writes *)

\* every cell occupying the row of `cell` already stores height h
RowAlreadyAt(d, p, cell, h) ==
    \A off \in CellsOfRow(d, RowIndex(d, p, cell)) :
        NodeAt(d, p, TableStart(p) + off).height = h

\* finish is about to run on a drag session whose handle is a cell
CommitStep == lastOp'.op \in FinishOps /\ Truthy(draggingRow) /\ activeHandle > -1

\* the height that finish commits in a CommitStep
CommitHeight == draggedHeight(draggingRow, lastOp'.y, cellMinHeight)

(* C11: when every cell of the target row already has the requested height,
   committing that height dispatches no document transaction: none of the
   transactions finish dispatches carries a step. *)
C11_UnchangedHeightDispatchesNoEdit ==
    [][(CommitStep /\ RowAlreadyAt(doc, pre, activeHandle, CommitHeight)) =>
          \A k \in 1 .. Len(dispatched') : dispatched'[k].steps = 0]_vars

(* C12: committing the same height for the same row boundary twice yields the
   same document as committing it once: a commit of height h on a row whose
   cells all store h already leaves every cell attribute as it was, and
   updateRowHeight applied to its own result returns that result. *)
C12_SecondCommitChangesNothing ==
    /\ [][(CommitStep /\ RowAlreadyAt(doc, pre, activeHandle, CommitHeight)) =>
             doc' = doc]_vars
    /\ [](activeHandle > -1 =>
             \A h \in {cellMinHeight, MaxHeight} :
                 LET once == updateRowHeight(doc, pre, activeHandle, h).doc
                 IN  updateRowHeight(once, pre, activeHandle, h).doc = once)

\* a row dragged to 80 earlier was grabbed again (startHeight 80) and released
\* where it was pressed: 80 was committed a second time
C12_Witness ==
    /\ lastOp.op = "mouseup"
    /\ lastOp.drag = Session(100, 80)
    /\ lastOp.y = 100
    /\ activeHandle > -1
    /\ RowAlreadyAt(doc, pre, activeHandle, 80)

(* C16: in one row-height commit each distinct cell of the target row gets
   exactly one attribute update, also a cell with colspan > 1 that occupies
   several slots of the row: the document transaction of the commit has as
   many steps as the row has distinct cells. *)
C16_OneStepPerDistinctCell ==
    [][CommitStep =>
          \A k \in 1 .. Len(dispatched') :
              dispatched'[k].steps > 0 =>
                  dispatched'[k].steps =
                      Cardinality(CellsOfRow(doc, RowIndex(doc, pre, activeHandle)))]_vars

\* the last row covered by the cell at pos: start row + rowspan - 1
LastRowOf(d, p, pos) == RowIndex(d, p, pos) + NodeAt(d, p, pos).rowspan - 1

(* C17: the row resized by a commit is the row that owns the boundary below
   the handle's cell, the last row that cell covers (start row + rowspan - 1):
   the cells occupying that row get the committed height and every other
   cell is left as it was, also when the handle's cell has rowspan > 1. *)
C17_CommitResizesLastCoveredRow ==
    [][CommitStep =>
          LET inRow == CellsOfRow(doc, LastRowOf(doc, pre, activeHandle))
          IN  \A ri \in CellIndexes(doc) :
                  LET old == doc[ri[1] + 1][ri[2]]
                      new == doc'[ri[1] + 1][ri[2]]
                  IN  IF CellOffset(doc, ri[1], ri[2]) \in inRow
                      THEN new = [old EXCEPT !.height = CommitHeight]
                      ELSE new = old]_vars

----------------------------------------------------------------------------
(* The option lastRowResizable *)

\* the bottom edge of the cell at pos is the bottom edge of the table's final row
BottomOfFinalRow(d, p, pos) ==
    RowIndex(d, p, pos) + NodeAt(d, p, pos).rowspan = Len(d)

(* C13: with lastRowResizable = false a pointer move, while not dragging,
   whose candidate boundary is the bottom edge of the table's final row
   leaves activeHandle = -1 whatever handle was active before, and that
   boundary is never the active handle; with lastRowResizable = true the same
   move makes that boundary the active handle. *)
C13_FinalRowBoundaryFollowsOption ==
    /\ [][\A side \in {"left", "right"} : \A hit \in CellPositions(doc, pre) :
             LET cell == edgeCell(doc, pre, side, hit)
             IN  (/\ cell # -1
                  /\ BottomOfFinalRow(doc, pre, cell)
                  /\ ~Truthy(draggingRow)
                  /\ HandleMouseMove(side, hit))
                     => activeHandle' = IF lastRowResizable THEN cell ELSE -1]_vars
    /\ []((~lastRowResizable /\ activeHandle > -1) =>
             ~BottomOfFinalRow(doc, pre, activeHandle))

----------------------------------------------------------------------------
(* The preview while dragging *)

(* C14: a pointer move on window with a button held during a drag only
   repaints the preview: it dispatches no transaction, and the document (every
   stored cell height), the plugin state (activeHandle, drag session) and the
   listeners are as before; the session ends on a pointer-up only. *)
C14_PreviewMoveChangesNoState ==
    [][(lastOp'.op = "move" /\ Truthy(draggingRow)) =>
          /\ dispatched' = <<>>
          /\ UNCHANGED <<doc, pre, activeHandle, draggingRow, listeners>>
          /\ activeHandle > -1 =>
                screen' = displayRowHeight(doc, pre, screen, activeHandle,
                              draggedHeight(draggingRow, lastOp'.y, cellMinHeight))]_vars

\* a move during a drag on row 0 painted the dragged height on screen row 0
\* and the cell still stores the height the drag started from
C14_Witness ==
    /\ lastOp.op = "move"
    /\ lastOp.drag = Session(100, 40)
    /\ lastOp.y = 130
    /\ draggingRow = lastOp.drag
    /\ activeHandle > -1
    /\ activeHandle = lastOp.handle
    /\ RowIndex(doc, pre, activeHandle) = 0
    /\ screen.rows[1].height = 70
    /\ NodeAt(doc, pre, activeHandle).height = 40

(* C18: during a drag on any row r of the table (row 0 or another), a preview
   sets the displayed height of screen row r to the dragged height, leaves the
   displayed height of every other screen row as it was, and keeps every
   screen row and every cell of the document on screen. *)
C18_PreviewPaintsDraggedRowOnly ==
    [][(lastOp'.op = "move" /\ Truthy(draggingRow) /\ activeHandle > -1) =>
          LET r == RowIndex(doc, pre, activeHandle)
              h == draggedHeight(draggingRow, lastOp'.y, cellMinHeight)
          IN  /\ Len(screen'.rows) = Len(screen.rows)
              /\ screen'.rows[r + 1].height = h
              /\ \A k \in 1 .. Len(screen.rows) :
                    /\ k # r + 1 => screen'.rows[k].height = screen.rows[k].height
                    /\ screen'.rows[k].cells = screen.rows[k].cells]_vars

----------------------------------------------------------------------------
(* Edits during a drag *)

(* C15: a document edit applied during a drag that leaves the remapped handle
   on a cell keeps the drag session as it was (same startY and startHeight)
   and the state Dragging on that cell at its new position; the next preview
   paints for, and the next commit writes to, the row of the handle as
   remapped (the current activeHandle). *)
C15_DragFollowsRemappedHandle ==
    /\ [][(lastOp'.op \in HostOps /\ Truthy(draggingRow) /\ activeHandle > -1
               /\ activeHandle' > -1) =>
             /\ draggingRow' = draggingRow
             /\ pointsAtCell(doc', pre', activeHandle')
             /\ NodeAt(doc', pre', activeHandle').id = NodeAt(doc, pre, activeHandle).id]_vars
    /\ [][(lastOp'.op = "move" /\ Truthy(draggingRow) /\ activeHandle > -1) =>
             /\ error' = "none"
             /\ screen' = updateRowsOnResize(doc, screen,
                              RowIndex(doc, pre, activeHandle),
                              draggedHeight(draggingRow, lastOp'.y, cellMinHeight))]_vars
    /\ [][CommitStep =>
             /\ error' = "none"
             /\ doc' = updateRowHeight(doc, pre, activeHandle, CommitHeight).doc
             /\ activeHandle' = activeHandle
             /\ NodeAt(doc', pre', activeHandle').height = CommitHeight]_vars

\* a character typed in front of the table during a drag moved the handle one
\* position on and left the session
C15_Witness ==
    /\ lastOp.op = "type"
    /\ Truthy(lastOp.drag)
    /\ lastOp.handle > -1
    /\ activeHandle = lastOp.handle + 1
    /\ draggingRow = lastOp.drag
    /\ listeners = 1

----------------------------------------------------------------------------
(* Boundary markers *)

\* the rows whose bottom edge is a boundary: the last row, and every row with a
\* column in which the cell of the next row is another cell
BoundaryRows(d) ==
    LET map == TableMapGet(d)
    IN  {r \in 0 .. map.height - 1 :
            \/ r = map.height - 1
            \/ \E c \in 0 .. map.width - 1 :
                  map.map[r * map.width + c] # map.map[(r + 1) * map.width + c]}

\* the row whose bottom edge the widget at pos marks: pos is the last position
\* inside a cell, the widget sits at that cell's bottom
MarkedRow(d, p, pos) == LastRowOf(d, p, pos - (CellNodeSize - 1))

(* C19: while a handle is active the decorations hold exactly one marker per
   row boundary of the table (a cell spanning several rows carries one marker,
   every row whose bottom edge separates different cells or ends the table
   has one), the same whichever cell is the active handle; with no active
   handle there is no marker. *)
C19_OneMarkerPerRowBoundary ==
    LET markers == Decorations(doc, pre, PluginState)
    IN  /\ activeHandle = -1 => markers = <<>>
        /\ activeHandle > -1 =>
              /\ \A r \in BoundaryRows(doc) :
                    Cardinality({k \in 1 .. Len(markers) :
                                    MarkedRow(doc, pre, markers[k]) = r}) = 1
              /\ \A k \in 1 .. Len(markers) :
                    MarkedRow(doc, pre, markers[k]) \in BoundaryRows(doc)
              /\ \A cell \in CellPositions(doc, pre) :
                    handleDecorations(doc, pre, cell) = markers

----------------------------------------------------------------------------
(* Getting out of a drag *)

\* the plugin state after a pointer-up at Y = y, if a listener is there to
\* receive it
AfterPointerUp(y) ==
    IF listeners > 0 THEN finish(doc, pre, PluginState, y).st ELSE PluginState

\* the plugin state st after handleMouseMove found `cell` under the pointer
AfterMoveTo(st, cell) ==
    IF /\ ~Truthy(st.draggingRow)
       /\ cell # st.activeHandle
       /\ ~(~lastRowResizable /\ cell # -1 /\ InLastColumn(doc, pre, cell))
    THEN apply(st, Tr(SetHandleMeta(cell), <<>>, doc, pre))
    ELSE st

(* C20: the state machine never gets stuck in a drag: whenever a drag session
   exists the window listeners are attached, a pointer-up (or button-less
   move) leaves no session behind, and from every state a pointer-up (if a
   drag is on) followed by a pointer move over a cell leads to a state in
   which a pointer-down starts a drag. *)
C20_DragNeverStuck ==
    /\ Truthy(draggingRow) => listeners > 0
    /\ lastOp.op \in FinishOps => ~Truthy(draggingRow)
    /\ \E y \in DownYs : \E cell \in CellPositions(doc, pre) :
          ~MouseDownRejected(AfterMoveTo(AfterPointerUp(y), cell))

====
